---- MODULE Spec2Model ----
(***************************************************************************)
(* Model of auditless_solcx/main.py: the wrappers that normalise a solcx   *)
(* compilation call into a standard-JSON document, persist it as a         *)
(* build-info artifact and delegate to solcx.                              *)
(*                                                                         *)
(* Python values are tagged records [t |-> <type>, v |-> <value>]; a       *)
(* string is a sequence of tokens, so concatenation, the substring test    *)
(* and the base-name computation are computed, not assumed.  A dict with   *)
(* fixed keys is a TLA+ function over those keys; the `sources` dict,      *)
(* whose iteration order the code depends on, is a sequence of <<key,      *)
(* value>> pairs with unique keys, in insertion order.                     *)
(***************************************************************************)
EXTENDS Integers, Sequences, FiniteSets, TLC

VARIABLES dir, installed, activations, calls, last, entry

vars == <<dir, installed, activations, calls, last, entry>>

-----------------------------------------------------------------------------
(* Python values *)

None == [t |-> "None"]
StrV(tokens) == [t |-> "str", v |-> tokens]
PathV(tokens) == [t |-> "Path", v |-> tokens]
IntV(n) == [t |-> "int", v |-> n]
BoolV(b) == [t |-> "bool", v |-> b]
ListV(s) == [t |-> "list", v |-> s]
DictV(pairs) == [t |-> "dict", v |-> pairs]
\* semantic_version.Version(major, minor, patch)
Version(major, minor, patch) == [t |-> "Version", v |-> <<major, minor, patch>>]

\* str(x)
PyStr(x) ==
  CASE x.t = "str" -> x
    [] x.t = "Path" -> StrV(x.v)
    [] x.t = "int" -> StrV(<<ToString(x.v)>>)
    [] x.t = "bool" -> StrV(<<IF x.v THEN "True" ELSE "False">>)
    [] x.t = "Version" ->
         StrV(<<ToString(x.v[1]), ".", ToString(x.v[2]), ".", ToString(x.v[3])>>)
    [] OTHER -> StrV(<<"None">>)

\* bool(x), as `if x:` evaluates it
Truthy(x) ==
  CASE x.t = "bool" -> x.v
    [] x.t = "int" -> x.v # 0
    [] x.t = "None" -> FALSE
    [] OTHER -> Len(x.v) > 0

\* `needle in s` for a string s: the needle is one token of the model
Contains(s, needle) == \E i \in 1..Len(s) : s[i] = needle

\* Errors: the exception class raised and the cause it stands for.
NoErr == [exc |-> "none", cause |-> "none"]
AuditlessSolcxException(cause) == [exc |-> "AuditlessSolcxException", cause |-> cause]
Raised(exc, cause) == [exc |-> exc, cause |-> cause]

-----------------------------------------------------------------------------
(* Ordered dicts: sequences of <<key, value>> pairs with unique keys *)

Keys(d) == {d[i][1] : i \in 1..Len(d)}
HasKey(d, k) == \E i \in 1..Len(d) : d[i][1] = k
Get(d, k) == d[CHOOSE i \in 1..Len(d) : d[i][1] = k][2]
\* d[k] = v: an existing key keeps its position, a new key is appended
Put(d, k, v) ==
  IF HasKey(d, k)
    THEN [i \in 1..Len(d) |-> IF d[i][1] = k THEN <<k, v>> ELSE d[i]]
    ELSE Append(d, <<k, v>>)

-----------------------------------------------------------------------------
(* The local file system the sources are read from *)

SrcA == <<"pragma", "contract A">>
SrcB == <<"pragma", "contract B">>
SrcC == <<"pragma", "library C">>

PathA == <<"/", "a", "/", "b", "/", "contract.sol">>
PathB == <<"/", "x", "/", "contract.sol">>
PathC == <<"/", "a", "/", "lib.sol">>
PathEmpty == <<"/", "a", "/", "empty.sol">>
PathMissing == <<"/", "gone", "/", "missing.sol">>
PathIpfs == <<"ipfs://", "Qm", "/", "remote.sol">>

Files == (PathA :> SrcA) @@ (PathB :> SrcB) @@ (PathC :> SrcC) @@ (PathEmpty :> <<>>)

\* Path(p).name: the tokens after the last separator
RECURSIVE LastSep(_, _)
LastSep(p, i) == IF i = 0 \/ p[i] \in {"/", "//"} THEN i ELSE LastSep(p, i - 1)
BaseName(p) == SubSeq(p, LastSep(p, Len(p)) + 1, Len(p))

\* Variant: the directory is not stripped.
_filename_full(path) == StrV(path.v)

_filename(path) == StrV(BaseName(path.v))

-----------------------------------------------------------------------------
(* _resolve_urls *)

\* One loop iteration on the entry at position i: the error raised, or the
\* entry that replaces it.
ResolveEntry(fileobj) ==
  IF "urls" \notin DOMAIN fileobj
    THEN [err |-> NoErr, obj |-> fileobj]
  ELSE IF Len(fileobj["urls"].v) = 0
    THEN [err |-> Raised("IndexError", "Crash"), obj |-> fileobj]
  ELSE LET last_url == fileobj["urls"].v[Len(fileobj["urls"].v)] IN
    IF last_url.t # "str"
      THEN [err |-> Raised("TypeError", "Crash"), obj |-> fileobj]
    ELSE IF Contains(last_url.v, "ipfs://") \/ Contains(last_url.v, "bzzr:")
      THEN [err |-> AuditlessSolcxException("UnsupportedRemoteSource"), obj |-> fileobj]
    ELSE IF last_url.v \notin DOMAIN Files
      THEN [err |-> Raised("OSError", "ReadFailure"), obj |-> fileobj]
    ELSE [err |-> NoErr, obj |-> ("content" :> StrV(Files[last_url.v]))]

RECURSIVE ResolveFrom(_, _)
ResolveFrom(sources, i) ==
  IF i > Len(sources) THEN [err |-> NoErr, sources |-> sources]
  ELSE LET r == ResolveEntry(sources[i][2]) IN
    IF r.err # NoErr THEN [err |-> r.err, sources |-> sources]
    ELSE ResolveFrom([sources EXCEPT ![i] = <<sources[i][1], r.obj>>], i + 1)

\* Returns the error raised (if any) and input_data as the loop left it: the
\* dict is updated in place, so the entries before a failing one stay replaced.
_resolve_urls(input_data) ==
  LET r == ResolveFrom(input_data.sources, 1) IN
    [err |-> r.err, doc |-> [input_data EXCEPT !.sources = r.sources]]

-----------------------------------------------------------------------------
(* The files/source normalizer *)

\* [f"{k}={v}" for k, v in solidity_input.iter()]: a dict has no method
\* `iter`, so evaluating the comprehension raises AttributeError.
_normalize_solidity_input(name, solidity_input) ==
  CASE solidity_input.t = "dict" ->
         [err |-> Raised("AttributeError", "Crash"), d |-> <<>>]
    [] solidity_input.t = "list" ->
         [err |-> NoErr,
          d |-> (name :> ListV([i \in 1..Len(solidity_input.v) |-> PyStr(solidity_input.v[i])]))]
    [] solidity_input.t # "None" ->
         [err |-> NoErr, d |-> (name :> PyStr(solidity_input))]
    [] OTHER -> [err |-> NoErr, d |-> <<>>]

\* {_filename(path): dict(urls=[path]) for path in source_files}
RECURSIVE SourcesOfList(_, _, _)
SourcesOfList(paths, i, acc) ==
  IF i > Len(paths) THEN acc
  ELSE SourcesOfList(paths, i + 1,
         Put(acc, _filename(paths[i]), ("urls" :> ListV(<<paths[i]>>))))

MetadataOf(a) ==
  LET m1 == IF a.metadata_hash # None THEN ("bytecodeHash" :> a.metadata_hash) ELSE <<>>
      m2 == IF Truthy(a.metadata_literal)
              THEN ("useLiteralContent" :> a.metadata_literal) @@ m1 ELSE m1
  IN IF a.metadata_hash # None \/ Truthy(a.metadata_literal)
       THEN ("metadata" :> m2) ELSE <<>>

\* Variant: the optimizer section is always written, `enabled` as passed.
OptimizerOfAlways(a) ==
  LET o1 == ("enabled" :> a.optimize)
      o2 == IF a.optimize_runs # None THEN ("runs" :> a.optimize_runs) @@ o1 ELSE o1
      o3 == IF Truthy(a.optimize_yul)
              THEN ("details" :> ("yul" :> BoolV(TRUE))) @@ o2 ELSE o2
  IN ("optimizer" :> o3)

OptimizerOf(a) ==
  LET o1 == IF Truthy(a.optimize) THEN ("enabled" :> BoolV(TRUE)) ELSE <<>>
      o2 == IF a.optimize_runs # None THEN ("runs" :> a.optimize_runs) @@ o1 ELSE o1
      o3 == IF Truthy(a.optimize_yul)
              THEN ("details" :> ("yul" :> BoolV(TRUE))) @@ o2 ELSE o2
  IN IF Truthy(a.optimize) \/ a.optimize_runs # None \/ Truthy(a.optimize_yul)
       THEN ("optimizer" :> o3) ELSE <<>>

DebugOf(a) ==
  IF a.revert_strings = None THEN <<>>
  ELSE ("debug" :> ("revertStrings" :> a.revert_strings))

NoDoc == [language |-> None, sources |-> <<>>, settings |-> <<>>]
Failed(err) == [err |-> err, doc |-> NoDoc]

\* Variant: stdin is looked at first.
SourcesOfStdinFirst(a) ==
  IF a.stdin # None
    THEN [err |-> NoErr,
          sources |-> << <<StrV(<<"<stdin>">>), ("content" :> a.stdin)>> >>]
  ELSE IF a.source_files.t = "list"
    THEN [err |-> NoErr, sources |-> SourcesOfList(a.source_files.v, 1, <<>>)]
  ELSE IF a.source_files # None
    THEN [err |-> NoErr,
          sources |-> << <<_filename(PyStr(a.source_files)),
                           ("urls" :> ListV(<<PyStr(a.source_files)>>))>> >>]
  ELSE [err |-> AuditlessSolcxException("MissingSource"), sources |-> <<>>]

\* The source selection: a list, then any other non-null source_files, then
\* stdin; stdin is not looked at when source_files is given.
SourcesOf(a) ==
  IF a.source_files.t = "list"
    THEN [err |-> NoErr, sources |-> SourcesOfList(a.source_files.v, 1, <<>>)]
  ELSE IF a.source_files # None
    THEN [err |-> NoErr,
          sources |-> << <<_filename(PyStr(a.source_files)),
                           ("urls" :> ListV(<<PyStr(a.source_files)>>))>> >>]
  ELSE IF a.stdin # None
    THEN [err |-> NoErr,
          sources |-> << <<StrV(<<"<stdin>">>), ("content" :> a.stdin)>> >>]
  ELSE [err |-> AuditlessSolcxException("MissingSource"), sources |-> <<>>]

extract_combined_json_from_compile_combined_json(a) ==
  LET selected == SourcesOf(a)
      remappings == _normalize_solidity_input("remappings", a.import_remappings)
      evmVersion == _normalize_solidity_input("evmVersion", a.evm_version)
      input_data ==
        [language |-> StrV(<<"Solidity">>),
         sources |-> selected.sources,
         settings |-> OptimizerOf(a) @@ MetadataOf(a) @@ DebugOf(a)
                        @@ evmVersion.d @@ remappings.d]
      resolved == _resolve_urls(input_data)
  IN IF selected.err # NoErr THEN Failed(selected.err)
     ELSE IF a.yul_optimizations # None
       THEN Failed(AuditlessSolcxException("UnsupportedConfiguration"))
     ELSE IF remappings.err # NoErr THEN Failed(remappings.err)
     ELSE IF evmVersion.err # NoErr THEN Failed(evmVersion.err)
     ELSE IF resolved.err # NoErr THEN Failed(resolved.err)
     ELSE IF a.base_path # None
       THEN Failed(AuditlessSolcxException("UnsupportedConfiguration"))
     ELSE [err |-> NoErr, doc |-> resolved.doc]

-----------------------------------------------------------------------------
(* The standard-JSON normalizer *)

_extract_combined_json_from_compile_standard(input_data, base_path) ==
  LET resolved == _resolve_urls(input_data) IN
    IF resolved.err # NoErr THEN resolved
    ELSE IF base_path # None
      THEN [err |-> AuditlessSolcxException("UnsupportedConfiguration"),
            doc |-> resolved.doc]
    ELSE resolved

-----------------------------------------------------------------------------
(* The version resolver.  The toolchain is solcx's: `default` is the       *)
(* executable solcx.main.get_executable finds (None when no compiler is    *)
(* installed or selected), and an executable answers --version or not.     *)

Solc076 == StrV(<<"solc-v0.7.6">>)
Solc080 == StrV(<<"solc-v0.8.0">>)
SolcBroken == StrV(<<"not-a-compiler">>)
BinaryVersion == (Solc076 :> Version(0, 7, 6)) @@ (Solc080 :> Version(0, 8, 0))

_determine_solidity_version(solc_binary, solc_version, default) ==
  IF solc_version # None THEN [err |-> NoErr, version |-> solc_version]
  ELSE LET binary == IF solc_binary = None THEN default ELSE solc_binary IN
    IF binary = None \/ binary \notin DOMAIN BinaryVersion
      THEN [err |-> Raised("SolcError", "VersionResolutionFailure"), version |-> None]
    ELSE [err |-> NoErr, version |-> BinaryVersion[binary]]

-----------------------------------------------------------------------------
(* The artifact directory and the artifact writer *)

\* Bound: the file names secrets.token_hex can return, as numbers.
NumNames == 2
Names == 1..NumNames

NoFile == [kind |-> "none"]
PartialFile == [kind |-> "partial"]
ArtifactFile(build_info) == [kind |-> "artifact", build_info |-> build_info]

\* Entries of other origin, by the kind os.path tells apart.
ForeignKinds == {"file", "link", "dir", "other"}

NoDir == [exists |-> FALSE, foreign |-> {}, files |-> [n \in Names |-> NoFile]]

\* Variant: the input is completed the way Hardhat completes it.
_save_artifacts_hardhat(output_directory, standard_json, solc_version, name, io) ==
  LET build_info == [_format |-> StrV(<<"hh-sol-build-info-1">>),
                     solcVersion |-> solc_version,
                     input |-> [standard_json EXCEPT
                                  !.settings = ("outputSelection" :> ListV(<<>>)) @@ @]]
  IN IF ~output_directory.exists \/ io = "open_fails"
       THEN [err |-> Raised("OSError", "PersistenceFailure"), dir |-> output_directory]
     ELSE IF io = "dump_fails"
       THEN [err |-> Raised("OSError", "PersistenceFailure"),
             dir |-> [output_directory EXCEPT !.files[name] = PartialFile]]
     ELSE [err |-> NoErr,
           dir |-> [output_directory EXCEPT !.files[name] = ArtifactFile(build_info)]]

\* Variant: one file name for every artifact.
_save_artifacts_fixed_name(output_directory, standard_json, solc_version, name, io) ==
  LET build_info == [_format |-> StrV(<<"hh-sol-build-info-1">>),
                     solcVersion |-> solc_version,
                     input |-> standard_json]
  IN IF ~output_directory.exists \/ io = "open_fails"
       THEN [err |-> Raised("OSError", "PersistenceFailure"), dir |-> output_directory]
     ELSE IF io = "dump_fails"
       THEN [err |-> Raised("OSError", "PersistenceFailure"),
             dir |-> [output_directory EXCEPT !.files[1] = PartialFile]]
     ELSE [err |-> NoErr,
           dir |-> [output_directory EXCEPT !.files[1] = ArtifactFile(build_info)]]

\* io: "ok", "open_fails" (the file cannot be opened for writing) or
\* "dump_fails" (json.dump raises after the file was opened and truncated).
_save_artifacts(output_directory, standard_json, solc_version, name, io) ==
  LET build_info == [_format |-> StrV(<<"hh-sol-build-info-1">>),
                     solcVersion |-> solc_version,
                     input |-> standard_json]
  IN IF ~output_directory.exists \/ io = "open_fails"
       THEN [err |-> Raised("OSError", "PersistenceFailure"), dir |-> output_directory]
     ELSE IF io = "dump_fails"
       THEN [err |-> Raised("OSError", "PersistenceFailure"),
             dir |-> [output_directory EXCEPT !.files[name] = PartialFile]]
     ELSE [err |-> NoErr,
           dir |-> [output_directory EXCEPT !.files[name] = ArtifactFile(build_info)]]

-----------------------------------------------------------------------------
(* The wrapped entry points.  `env` is what the call meets outside the     *)
(* program: the toolchain's default executable, the file name token_hex    *)
(* draws and the outcome of the write.                                     *)
(* A call's outcome is a record: the error raised before the backend (or   *)
(* NoErr), the artifact directory after the call, the caller's document    *)
(* object after the call (compile_standard), how often the original entry  *)
(* point was invoked and with which arguments, and what was returned.      *)

NoArgs == [t |-> "None"]

\* solcx.main.compile_*: opaque; what it returns (or raises: an exception
\* leaves the wrapper through the same return statement) is decided by its
\* arguments and the toolchain.
Backend(backend_args, env) ==
  [t |-> "outcome", of |-> backend_args, toolchain |-> env.default]

NotDelegated(err, d, caller_doc) ==
  [err |-> err, dir |-> d, caller_doc |-> caller_doc, backend_calls |-> 0,
   backend_args |-> NoArgs, backend_returned |-> None, returned |-> None]

Delegated(d, caller_doc, backend_args, env) ==
  [err |-> NoErr, dir |-> d, caller_doc |-> caller_doc, backend_calls |-> 1,
   backend_args |-> backend_args,
   backend_returned |-> Backend(backend_args, env),
   returned |-> Backend(backend_args, env)]

compile_standard(output_directory, a, env) ==
  LET n == _extract_combined_json_from_compile_standard(a.input_data, a.base_path)
      ver == _determine_solidity_version(a.solc_binary, a.solc_version, env.default)
      saved == _save_artifacts(output_directory, n.doc, PyStr(ver.version), env.name, env.io)
  IN IF n.err # NoErr THEN NotDelegated(n.err, output_directory, n.doc)
     ELSE IF ver.err # NoErr THEN NotDelegated(ver.err, output_directory, n.doc)
     ELSE IF saved.err # NoErr THEN NotDelegated(saved.err, saved.dir, n.doc)
     ELSE Delegated(saved.dir, n.doc,
            [a EXCEPT !.input_data = n.doc, !.solc_version = ver.version], env)

_compile_combined_json(output_directory, kw, env) ==
  LET n == extract_combined_json_from_compile_combined_json(kw)
      ver == _determine_solidity_version(kw.solc_binary, kw.solc_version, env.default)
      saved == _save_artifacts(output_directory, n.doc, PyStr(ver.version), env.name, env.io)
  IN IF n.err # NoErr THEN [err |-> n.err, dir |-> output_directory]
     ELSE IF ver.err # NoErr THEN [err |-> ver.err, dir |-> output_directory]
     ELSE [err |-> saved.err, dir |-> saved.dir]

\* The keyword arguments compile_files hands to _compile_combined_json:
\* optimize_yul is not among them, so the helper sees its default, False.
FilesKeywords(a) ==
  [source_files |-> a.source_files, stdin |-> None,
   import_remappings |-> a.import_remappings, base_path |-> a.base_path,
   evm_version |-> a.evm_version, revert_strings |-> a.revert_strings,
   metadata_hash |-> a.metadata_hash, metadata_literal |-> a.metadata_literal,
   optimize |-> a.optimize, optimize_runs |-> a.optimize_runs,
   optimize_yul |-> BoolV(FALSE), yul_optimizations |-> a.yul_optimizations,
   solc_binary |-> a.solc_binary, solc_version |-> a.solc_version]

compile_files(output_directory, a, env) ==
  LET r == _compile_combined_json(output_directory, FilesKeywords(a), env) IN
    IF r.err # NoErr THEN NotDelegated(r.err, r.dir, None)
    ELSE Delegated(r.dir, None, a, env)

\* The keyword arguments compile_source hands to _compile_combined_json.
SourceKeywords(a) ==
  [source_files |-> None, stdin |-> a.source,
   import_remappings |-> a.import_remappings, base_path |-> a.base_path,
   evm_version |-> a.evm_version, revert_strings |-> a.revert_strings,
   metadata_hash |-> a.metadata_hash, metadata_literal |-> a.metadata_literal,
   optimize |-> a.optimize, optimize_runs |-> a.optimize_runs,
   optimize_yul |-> BoolV(FALSE), yul_optimizations |-> a.yul_optimizations,
   solc_binary |-> a.solc_binary, solc_version |-> a.solc_version]

compile_source(output_directory, a, env) ==
  LET r == _compile_combined_json(output_directory, SourceKeywords(a), env) IN
    IF r.err # NoErr THEN NotDelegated(r.err, r.dir, None)
    ELSE Delegated(r.dir, None, a, env)

-----------------------------------------------------------------------------
(* The entry points solcx.compile_standard, compile_files, compile_source.  *)
(* What one is bound to is told by the wrappers a call through it passes    *)
(* before it reaches the backend, outermost first; a wrapper is named by    *)
(* its generation, the number of wrappers installed up to and including it. *)

\* solcx.main.compile_*, which the wrappers delegate to: no statement
\* assigns to these attributes, so a call through them passes no wrapper.
RawEntry == <<>>

Generation(bound) == IF bound = <<>> THEN 0 ELSE Head(bound)

\* Variant: the wrapper delegates to the entry point it replaces.
create_compile_layered(old) == <<Generation(old) + 1>> \o old

\* create_compile_standard, _files, _source: the new wrapper, which
\* delegates to solcx.main.compile_*; `old` is what the entry point was
\* bound to, of which the patch keeps the __doc__ only.
create_compile(old) == <<Generation(old) + 1>> \o RawEntry

-----------------------------------------------------------------------------
(* Activation *)

\* Variant: links are not looked for.
RemovableNoLinks(d) ==
  [names |-> {n \in Names : d.files[n] # NoFile},
   kinds |-> d.foreign \cap {"file", "dir"}]

\* What the clearing loop removes: regular files and links are unlinked,
\* directories removed with their trees, anything else is passed over.
Removable(d) ==
  [names |-> {n \in Names : d.files[n] # NoFile},
   kinds |-> d.foreign \cap {"file", "link", "dir"}]

Remove(d, names, kinds) ==
  [d EXCEPT !.files = [n \in Names |-> IF n \in names THEN NoFile ELSE d.files[n]],
            !.foreign = d.foreign \ kinds]

solcx_start_saving_debugging_output_to_path(d, project_root, env) ==
  LET made == [d EXCEPT !.exists = TRUE]
      all == Removable(made)
  IN IF ~d.exists /\ ~env.mkdir
       THEN [err |-> AuditlessSolcxException("PersistenceFailure"), dir |-> d,
             removed |-> [names |-> {}, kinds |-> {}], install |-> FALSE]
     ELSE IF ~env.clear_ok
       THEN [err |-> AuditlessSolcxException("PersistenceFailure"),
             dir |-> Remove(made, env.names, env.kinds),
             removed |-> [names |-> env.names, kinds |-> env.kinds], install |-> FALSE]
     ELSE IF ~env.solcx_ok
       THEN [err |-> AuditlessSolcxException("SolcxChanged"),
             dir |-> Remove(made, all.names, all.kinds), removed |-> all,
             install |-> FALSE]
     ELSE [err |-> NoErr, dir |-> Remove(made, all.names, all.kinds),
           removed |-> all, install |-> TRUE]

-----------------------------------------------------------------------------
(* Inputs *)

SourceText == StrV(SrcA)
V076 == Version(0, 7, 6)

\* The document of test_compile_standard: two in-memory sources.
DocInMemory ==
  [language |-> StrV(<<"Solidity">>),
   sources |-> << <<StrV(<<"file1">>), ("content" :> StrV(SrcA))>>,
                  <<StrV(<<"file2">>), ("content" :> StrV(SrcB))>> >>,
   settings |-> ("outputSelection" :> ListV(<<StrV(<<"metadata">>)>>))]

DocOf(sources) ==
  [language |-> StrV(<<"Solidity">>), sources |-> sources, settings |-> <<>>]

Urls(paths) == ("urls" :> ListV([i \in 1..Len(paths) |-> StrV(paths[i])]))

StandardDocs ==
  { DocInMemory,
    DocOf(<< <<StrV(<<"a.sol">>), Urls(<<PathMissing, PathA>>)>> >>),
    DocOf(<< <<StrV(<<"a.sol">>), Urls(<<PathA>>)>>,
             <<StrV(<<"gone.sol">>), Urls(<<PathMissing>>)>> >>),
    DocOf(<< <<StrV(<<"r.sol">>), Urls(<<PathA, PathIpfs>>)>> >>),
    DocOf(<< <<StrV(<<"e.sol">>), Urls(<<PathEmpty>>)>>,
             <<StrV(<<"file1">>), ("content" :> StrV(SrcA))>> >>) }

BasePaths == {None, StrV(<<"/", "base">>)}

StandardCall(doc, base_path, solc_binary, solc_version) ==
  [input_data |-> doc, base_path |-> base_path, solc_binary |-> solc_binary,
   solc_version |-> solc_version, allow_empty |-> BoolV(FALSE)]

StandardArgs ==
  { StandardCall(doc, None, None, V076) : doc \in StandardDocs }
    \cup { StandardCall(DocInMemory, None, None, None),
           StandardCall(DocInMemory, StrV(<<"/", "base">>), None, None),
           StandardCall(DocInMemory, None, SolcBroken, None) }

\* Every option at the default of the signature.
DefaultOptions ==
  [import_remappings |-> None, base_path |-> None, evm_version |-> None,
   revert_strings |-> None, metadata_hash |-> None,
   metadata_literal |-> BoolV(FALSE), optimize |-> BoolV(FALSE),
   optimize_runs |-> None, optimize_yul |-> BoolV(FALSE),
   yul_optimizations |-> None, solc_binary |-> None, solc_version |-> None]

CallOptions ==
  { DefaultOptions,
    [DefaultOptions EXCEPT !.optimize_runs = IntV(200), !.optimize_yul = BoolV(TRUE),
                           !.solc_version = V076],
    [DefaultOptions EXCEPT !.import_remappings = ListV(<<StrV(<<"a", "=", "b">>)>>),
                           !.evm_version = StrV(<<"istanbul">>),
                           !.solc_binary = Solc080],
    [DefaultOptions EXCEPT !.base_path = StrV(<<"/", "base">>)] }

FilesArgs ==
  { [source_files |-> StrV(PathA)] @@ o : o \in CallOptions }
    \cup { [source_files |-> f] @@ DefaultOptions :
             f \in {ListV(<<StrV(PathA), StrV(PathC)>>), ListV(<<StrV(PathMissing)>>)} }

SourceArgs ==
  { [source |-> SourceText] @@ o :
      o \in {DefaultOptions, [DefaultOptions EXCEPT !.optimize_yul = BoolV(TRUE)],
             [DefaultOptions EXCEPT !.yul_optimizations = IntV(1)]} }

Defaults == {None, Solc076}

\* The file names in use, and the names token_hex can draw: any name in
\* use, or a name not in use.  No code looks at the name drawn, so one name
\* stands for all those not in use.
Used(d) == {n \in Names : d.files[n] # NoFile}
Draws(d) == Used(d) \cup {n \in Names : \A m \in Names \ Used(d) : n <= m}

\* The environment a call can meet.  The parts a call never reaches are left
\* at one value: the default executable when the caller names a version or
\* an executable, the file name when the file cannot be opened.
CallEnv(a, d) ==
  { e \in [default : Defaults, name : Draws(d),
           io : {"ok", "open_fails", "dump_fails"}] :
      /\ (a.solc_version # None \/ a.solc_binary # None) => e.default = None
      /\ e.io = "open_fails" => \A n \in Draws(d) : e.name <= n }

\* The environment an activation can meet: env.mkdir, whether the directory
\* can be created when it is missing; env.clear_ok, whether every removal
\* succeeds; env.names, env.kinds, the entries removed before the failing one
\* when it does not (os.listdir gives them in arbitrary order); env.solcx_ok,
\* whether solcx.main still has compile_standard.
ActivateEnv(d) ==
  { e \in [mkdir : BOOLEAN, clear_ok : BOOLEAN, solcx_ok : BOOLEAN,
           names : SUBSET Removable(d).names, kinds : SUBSET Removable(d).kinds] :
      /\ d.exists => e.mkdir
      /\ ~e.mkdir => e.clear_ok /\ e.solcx_ok
      /\ ~e.clear_ok => e.solcx_ok /\ <<e.names, e.kinds>> # <<Removable(d).names, Removable(d).kinds>>
      /\ e.clear_ok => e.names = Removable(d).names /\ e.kinds = Removable(d).kinds }

ProjectRoots == {StrV(<<"/", "project">>), PathV(<<"/", "project">>)}

-----------------------------------------------------------------------------
(* The state machine *)

\* Bounds on the length of a run.
MaxCalls == 2
MaxActivations == 2
MaxForeign == 1

Init ==
  /\ dir = NoDir
  /\ installed = FALSE
  /\ activations = 0
  /\ calls = 0
  /\ last = [op |-> "import"]
  /\ entry = RawEntry

Activate ==
  /\ activations < MaxActivations
  /\ \E project_root \in ProjectRoots, env \in ActivateEnv(dir) :
       LET r == solcx_start_saving_debugging_output_to_path(dir, project_root, env) IN
         /\ dir' = r.dir
         /\ installed' = (installed \/ r.install)
         /\ activations' = IF r.install THEN activations + 1 ELSE activations
         /\ entry' = IF r.install THEN create_compile(entry) ELSE entry
         /\ last' = [op |-> "activate", project_root |-> project_root,
                     err |-> r.err, removed |-> r.removed]
         /\ UNCHANGED calls

\* No name has been drawn: the call ended before _save_artifacts.
NoName == 0

\* What a call leaves to be observed.  The name is the one token_hex drew,
\* when the call got as far as _save_artifacts: it succeeded, or it failed
\* in the write.
Record(op, a, env, r) ==
  [op |-> op, args |-> a,
   name |-> IF r.err = NoErr \/ r.err.cause = "PersistenceFailure"
              THEN env.name ELSE NoName,
   err |-> r.err,
   caller_doc |-> r.caller_doc, backend_calls |-> r.backend_calls,
   backend_args |-> r.backend_args, backend_returned |-> r.backend_returned,
   returned |-> r.returned]

CompileStandard ==
  /\ installed /\ calls < MaxCalls
  /\ \E a \in StandardArgs : \E env \in CallEnv(a, dir) :
       LET r == compile_standard(dir, a, env) IN
         /\ dir' = r.dir
         /\ last' = Record("compile_standard", a, env, r) @@ [through |-> entry]
         /\ calls' = calls + 1
         /\ UNCHANGED <<installed, activations, entry>>

CompileFiles ==
  /\ installed /\ calls < MaxCalls
  /\ \E a \in FilesArgs : \E env \in CallEnv(a, dir) :
       LET r == compile_files(dir, a, env) IN
         /\ dir' = r.dir
         /\ last' = Record("compile_files", a, env, r) @@ [through |-> entry]
         /\ calls' = calls + 1
         /\ UNCHANGED <<installed, activations, entry>>

CompileSource ==
  /\ installed /\ calls < MaxCalls
  /\ \E a \in SourceArgs : \E env \in CallEnv(a, dir) :
       LET r == compile_source(dir, a, env) IN
         /\ dir' = r.dir
         /\ last' = Record("compile_source", a, env, r) @@ [through |-> entry]
         /\ calls' = calls + 1
         /\ UNCHANGED <<installed, activations, entry>>

\* Something else puts an entry into the artifact directory.
OtherWrites ==
  /\ dir.exists
  /\ \E kind \in ForeignKinds :
       /\ kind \notin dir.foreign
       /\ Cardinality(dir.foreign) < MaxForeign
       /\ dir' = [dir EXCEPT !.foreign = @ \cup {kind}]
  /\ last' = [op |-> "other"]
  /\ UNCHANGED <<installed, activations, calls, entry>>

Next == Activate \/ CompileStandard \/ CompileFiles \/ CompileSource \/ OtherWrites

Spec == Init /\ [][Next]_vars

-----------------------------------------------------------------------------
(* The normalizer called on its own: it is exported, and takes source_files *)
(* and stdin side by side and optimize_yul as given.                        *)

\* Bound: the length of a source_files list.
MaxFiles == 2

PathValues ==
  {StrV(PathA), StrV(PathB), StrV(PathC), StrV(PathEmpty), StrV(PathMissing),
   StrV(PathIpfs), PathV(PathA)}

SourceFilesValues ==
  {None, StrV(PathA), PathV(PathA), StrV(PathC)}
    \cup { ListV(l) : l \in UNION {[1..n -> PathValues] : n \in 0..MaxFiles} }

RemappingValues ==
  { None,
    DictV(<< <<StrV(<<"a">>), StrV(<<"b">>)>> >>),
    ListV(<<StrV(<<"a", "=", "b">>), PathV(<<"c", "=", "d">>)>>),
    ListV(<<>>),
    StrV(<<"a", "=", "b">>) }

AllOptions ==
  [import_remappings : RemappingValues, base_path : BasePaths,
   evm_version : {None, StrV(<<"istanbul">>)},
   revert_strings : {None, StrV(<<"strip">>)},
   metadata_hash : {None, StrV(<<"bzzr1">>)},
   metadata_literal : {BoolV(FALSE), BoolV(TRUE)},
   optimize : {BoolV(FALSE), BoolV(TRUE)},
   optimize_runs : {None, IntV(0)},
   optimize_yul : {BoolV(FALSE), BoolV(TRUE)},
   yul_optimizations : {None, IntV(1)},
   solc_binary : {None}, solc_version : {None}]

\* Every source selection under a few option sets, and every option set
\* under a few source selections.
NormalizerArgs ==
  { [source_files |-> f, stdin |-> i] @@ o :
      f \in SourceFilesValues, i \in {None, SourceText},
      o \in {DefaultOptions, [DefaultOptions EXCEPT !.optimize = BoolV(TRUE)]} }
    \cup
  { [source_files |-> f, stdin |-> i] @@ o :
      f \in {None, StrV(PathA)}, i \in {None, SourceText}, o \in AllOptions }

InitNormalizer ==
  /\ dir = NoDir
  /\ installed = FALSE
  /\ activations = 0
  /\ calls = 0
  /\ entry = RawEntry
  /\ last \in {[op |-> "arguments", args |-> a] : a \in NormalizerArgs}

Normalize ==
  /\ last.op = "arguments"
  /\ LET r == extract_combined_json_from_compile_combined_json(last.args) IN
       last' = [op |-> "extract", args |-> last.args, err |-> r.err, doc |-> r.doc]
  /\ UNCHANGED <<dir, installed, activations, calls, entry>>

NextNormalizer == Normalize

SpecNormalizer == InitNormalizer /\ [][NextNormalizer]_vars

-----------------------------------------------------------------------------
(* Properties of the normalizer (under SpecNormalizer) *)

Extracted == last.op = "extract"
Produced == Extracted /\ last.err = NoErr
Settings == last.doc.settings

True == BoolV(TRUE)

\* C7: in every document the normalizer produces, a settings key (remappings,
\* evmVersion, debug, metadata, optimizer, optimizer.details) and each child
\* under it is present exactly when the option behind it was requested, no
\* other key is present, and no child holds a default; with no option the
\* settings are empty and with only optimize=true they are
\* {optimizer: {enabled: true}}.
C7_SettingsOnlyWhenRequested ==
  Produced =>
    LET a == last.args
        wantMeta == a.metadata_hash # None \/ a.metadata_literal = True
        wantOpt == a.optimize = True \/ a.optimize_runs # None \/ a.optimize_yul = True
    IN /\ DOMAIN Settings \subseteq {"remappings", "evmVersion", "debug", "metadata", "optimizer"}
       /\ ("remappings" \in DOMAIN Settings) = (a.import_remappings # None)
       /\ ("evmVersion" \in DOMAIN Settings) = (a.evm_version # None)
       /\ ("debug" \in DOMAIN Settings) = (a.revert_strings # None)
       /\ ("debug" \in DOMAIN Settings) =>
            Settings["debug"] = ("revertStrings" :> a.revert_strings)
       /\ ("metadata" \in DOMAIN Settings) = wantMeta
       /\ wantMeta =>
            /\ DOMAIN Settings["metadata"] \subseteq {"bytecodeHash", "useLiteralContent"}
            /\ ("bytecodeHash" \in DOMAIN Settings["metadata"]) = (a.metadata_hash # None)
            /\ ("useLiteralContent" \in DOMAIN Settings["metadata"]) = (a.metadata_literal = True)
            /\ a.metadata_literal = True => Settings["metadata"]["useLiteralContent"] = True
       /\ ("optimizer" \in DOMAIN Settings) = wantOpt
       /\ wantOpt =>
            /\ DOMAIN Settings["optimizer"] \subseteq {"enabled", "runs", "details"}
            /\ ("enabled" \in DOMAIN Settings["optimizer"]) = (a.optimize = True)
            /\ a.optimize = True => Settings["optimizer"]["enabled"] = True
            /\ ("runs" \in DOMAIN Settings["optimizer"]) = (a.optimize_runs # None)
            /\ ("details" \in DOMAIN Settings["optimizer"]) = (a.optimize_yul = True)
            /\ a.optimize_yul = True => Settings["optimizer"]["details"] = ("yul" :> True)
       /\ (\A k \in DOMAIN DefaultOptions : a[k] = DefaultOptions[k]) => Settings = <<>>
       /\ (\A k \in DOMAIN DefaultOptions :
             a[k] = [DefaultOptions EXCEPT !.optimize = True][k])
            => Settings = ("optimizer" :> ("enabled" :> True))

C7_Witness ==
  /\ Produced
  /\ last.args.optimize = True /\ last.args.optimize_runs = None
  /\ last.args.optimize_yul # True /\ last.args.metadata_hash # None
  /\ "optimizer" \in DOMAIN Settings /\ "metadata" \in DOMAIN Settings
  /\ Settings["optimizer"] = ("enabled" :> True)

\* C8 as claimed: the normalizer fails with MissingSource, producing no
\* document, whenever source_files and stdin are both null or both non-null.
C8_ExactlyOneSource ==
  Extracted =>
    ((last.args.source_files = None) = (last.args.stdin = None)
       => last.err.cause = "MissingSource" /\ last.doc = NoDoc)

\* The base names of the paths of the model.
NameOf ==
  (PathA :> <<"contract.sol">>) @@ (PathB :> <<"contract.sol">>)
    @@ (PathC :> <<"lib.sol">>) @@ (PathEmpty :> <<"empty.sol">>)
    @@ (PathMissing :> <<"missing.sol">>) @@ (PathIpfs :> <<"remote.sol">>)

\* The paths a call names, in order.
PathsGiven(a) ==
  IF a.source_files.t = "list"
    THEN [i \in 1..Len(a.source_files.v) |-> a.source_files.v[i].v]
    ELSE <<a.source_files.v>>

\* C8, amended: the normalizer fails with MissingSource, producing no
\* document, exactly when source_files and stdin are both null; when
\* source_files is non-null the sources are built from it, whether or not
\* stdin is given; when only stdin is non-null they are built from stdin.
C8_MissingSourceIffNeither ==
  Extracted =>
    /\ (last.err.cause = "MissingSource")
         = (last.args.source_files = None /\ last.args.stdin = None)
    /\ last.err.cause = "MissingSource" => last.doc = NoDoc
    /\ (last.err = NoErr /\ last.args.source_files # None) =>
         Keys(last.doc.sources)
           = {StrV(NameOf[PathsGiven(last.args)[i]]) : i \in 1..Len(PathsGiven(last.args))}
    /\ (last.err = NoErr /\ last.args.source_files = None) =>
         last.doc.sources = << <<StrV(<<"<stdin>">>), ("content" :> last.args.stdin)>> >>

C8_Witness ==
  /\ Produced
  /\ last.args.source_files = StrV(PathA) /\ last.args.stdin = SourceText
  /\ Keys(last.doc.sources) = {StrV(<<"contract.sol">>)}

C10_RemappingsIsAList ==
  (Extracted /\ last.args.import_remappings # None) =>
    /\ last.err.exc # "AttributeError"
    /\ last.err = NoErr =>
         /\ "remappings" \in DOMAIN Settings
         /\ Settings["remappings"].t = "list"
         /\ \A i \in 1..Len(Settings["remappings"].v) :
              Settings["remappings"].v[i].t = "str"
         /\ last.args.import_remappings.t \notin {"list", "dict"} =>
              Len(Settings["remappings"].v) = 1

-----------------------------------------------------------------------------
(* Properties of the wrapped entry points and of activation (under Spec) *)

CompileOps == {"compile_standard", "compile_files", "compile_source"}
FilesIn(d) == {n \in Names : d.files[n] # NoFile}
InMemory(doc) == \A i \in 1..Len(doc.sources) : DOMAIN doc.sources[i][2] = {"content"}
VersionText == (V076 :> <<"0", ".", "7", ".", "6">>)

\* C1: when compile_standard is called with a document whose sources all
\* hold content and with an explicit version, and the artifact is written,
\* the file written is {_format: "hh-sol-build-info-1", solcVersion: the
\* version as text, input: the caller's document, unchanged}.
C1_StandardRoundTrip ==
  (/\ last.op = "compile_standard" /\ last.err = NoErr
   /\ InMemory(last.args.input_data) /\ last.args.solc_version # None)
    => dir.files[last.name]
         = [kind |-> "artifact",
            build_info |->
              [_format |-> StrV(<<"hh-sol-build-info-1">>),
               solcVersion |-> StrV(VersionText[last.args.solc_version]),
               input |-> last.args.input_data]]

C1_Witness ==
  /\ last.op = "compile_standard" /\ last.err = NoErr
  /\ last.args.input_data = DocInMemory /\ last.args.solc_version = V076
  /\ last.backend_calls = 1
  /\ dir.files[last.name].kind = "artifact"

\* C2 as claimed: when a wrapped call gets as far as the backend, the
\* original entry point is invoked once, with the very arguments the caller
\* passed, the caller's document is as it was, and the wrapper returns what
\* the original returned.
C2_OriginalArgumentsPassed ==
  (last.op \in CompileOps /\ last.err = NoErr) =>
    /\ last.backend_calls = 1
    /\ last.backend_args = last.args
    /\ last.op = "compile_standard" => last.caller_doc = last.args.input_data
    /\ last.returned = last.backend_returned

FailureCauses ==
  {"MissingSource", "UnsupportedConfiguration", "UnsupportedRemoteSource",
   "ReadFailure", "VersionResolutionFailure", "PersistenceFailure"}

\* C3 as claimed: a wrapped call that fails with one of the six causes does
\* not invoke the backend and leaves the same set of files in the artifact
\* directory as it found.
C3_FailedCallLeavesNothing ==
  [][(last'.op \in CompileOps /\ last'.err.cause \in FailureCauses)
       => (last'.backend_calls = 0 /\ FilesIn(dir') = FilesIn(dir))]_vars

\* C4: after every successful activation the artifact directory exists and
\* holds no file, link or subdirectory, so it is empty whatever files, links
\* or subdirectories (artifacts included) it held; and no step other than
\* an activation removes an entry from it.
C4_ClearedAtActivationOnly ==
  /\ [](last.op = "activate" /\ last.err = NoErr =>
          /\ dir.exists
          /\ FilesIn(dir) = {}
          /\ dir.foreign \cap {"file", "link", "dir"} = {}
          /\ installed)
  /\ [][last'.op # "activate" =>
          /\ dir.exists => dir'.exists
          /\ FilesIn(dir) \subseteq FilesIn(dir')
          /\ dir.foreign \subseteq dir'.foreign]_vars

C4_Witness ==
  /\ last.op = "activate" /\ last.err = NoErr
  /\ activations = 2 /\ calls > 0
  /\ last.removed.names # {} /\ last.removed.kinds # {}
  /\ FilesIn(dir) = {} /\ dir.foreign = {}

KeywordsPassed ==
  [(IF last.op = "compile_files" THEN FilesKeywords(last.args)
                                 ELSE SourceKeywords(last.args))
     EXCEPT !.optimize_yul = last.args.optimize_yul]

\* C6 as claimed: the artifact a compile_files or compile_source call writes
\* holds the normalizer's document for the arguments of the call, so with
\* optimize_yul=true it holds settings.optimizer.details.yul = true.
C6_ArtifactReflectsOptions ==
  (last.op \in {"compile_files", "compile_source"} /\ last.err = NoErr) =>
    /\ dir.files[last.name].kind = "artifact"
    /\ dir.files[last.name].build_info.input
         = extract_combined_json_from_compile_combined_json(KeywordsPassed).doc
    /\ last.args.optimize_yul = True =>
         /\ "optimizer" \in DOMAIN dir.files[last.name].build_info.input.settings
         /\ "details" \in DOMAIN dir.files[last.name].build_info.input.settings["optimizer"]

\* The entries of a document that hold a location list, the last location
\* of each, and what the file system says of a location.
UrlEntries(doc) == {i \in 1..Len(doc.sources) : "urls" \in DOMAIN doc.sources[i][2]}
LastLocation(doc, i) ==
  doc.sources[i][2]["urls"].v[Len(doc.sources[i][2]["urls"].v)].v
Remote(p) == Contains(p, "ipfs://") \/ Contains(p, "bzzr:")
UnreadableOrEmpty(p) == ~Remote(p) /\ (p \notin DOMAIN Files \/ Files[p] = <<>>)

\* C11 as claimed: in a compile_standard call only the last location of an
\* entry counts; when no last location is remote and one is unreadable or
\* empty the call fails with the system's own exception, cause ReadFailure;
\* when one is remote and none is unreadable or empty it fails with
\* UnsupportedRemoteSource; and a document that reaches the artifact has
\* every located entry replaced by {content: the text of its last, non-empty
\* file}, every other entry as it was, and no `urls` left.
C11_UrlResolution ==
  last.op = "compile_standard" =>
    LET doc == last.args.input_data
        located == UrlEntries(doc)
    IN /\ ( /\ \A i \in located : ~Remote(LastLocation(doc, i))
            /\ \E i \in located : UnreadableOrEmpty(LastLocation(doc, i)) )
            => last.err = AuditlessSolcxException("ReadFailure")
       /\ ( /\ \E i \in located : Remote(LastLocation(doc, i))
            /\ \A i \in located : ~UnreadableOrEmpty(LastLocation(doc, i)) )
            => last.err = AuditlessSolcxException("UnsupportedRemoteSource")
       /\ last.err = NoErr =>
            LET written == dir.files[last.name].build_info.input.sources IN
              /\ Len(written) = Len(doc.sources)
              /\ \A i \in 1..Len(doc.sources) :
                   /\ written[i][1] = doc.sources[i][1]
                   /\ "urls" \notin DOMAIN written[i][2]
                   /\ i \notin located => written[i][2] = doc.sources[i][2]
                   /\ i \in located =>
                        /\ LastLocation(doc, i) \in DOMAIN Files
                        /\ Files[LastLocation(doc, i)] # <<>>
                        /\ written[i][2] = ("content" :> StrV(Files[LastLocation(doc, i)]))

\* C12 as claimed: every successful activation clears the directory and
\* installs wrappers anew, and once a second activation has succeeded a call
\* passes the new wrapper and then the entry point installed before it: the
\* wrappers of all the activations so far, newest first.
C12_WrappersLayered ==
  /\ (last.op = "activate" /\ last.err = NoErr) =>
       FilesIn(dir) = {} /\ installed /\ Generation(entry) >= 1
  /\ (last.op \in CompileOps /\ Generation(last.through) >= 2) =>
       last.through = [i \in 1..Generation(last.through) |->
                         Generation(last.through) + 1 - i]

\* C12, amended: every successful activation clears the directory and
\* installs new wrappers in place of the ones installed before; a call after
\* any number of activations passes the newest wrapper only, which delegates
\* straight to the backend, and which therefore writes at most one file and
\* invokes the backend once when the call succeeds, and not at all otherwise.
C12_NewestWrapperOnly ==
  /\ [](/\ (last.op = "activate" /\ last.err = NoErr) =>
             FilesIn(dir) = {} /\ installed /\ Generation(entry) >= 1
        /\ installed <=> entry # RawEntry
        /\ last.op \in CompileOps =>
             /\ last.through = <<Generation(entry)>>
             /\ last.backend_calls = (IF last.err = NoErr THEN 1 ELSE 0))
  /\ [][/\ (last'.op = "activate" /\ last'.err = NoErr) =>
             Generation(entry') = Generation(entry) + 1
        /\ (last'.op # "activate" \/ last'.err # NoErr) => entry' = entry
        /\ last'.op \in CompileOps =>
             Cardinality({n \in Names : dir'.files[n] # dir.files[n]}) <= 1]_vars

C12_Witness ==
  /\ last.op \in CompileOps /\ last.err = NoErr
  /\ Generation(last.through) = 2
  /\ last.backend_calls = 1
  /\ Cardinality(FilesIn(dir)) = 1

====
